---- MODULE Spec2Model ----
(***************************************************************************)
(* Geometry engine of the copper-coil coordinate generator (src/app.py):   *)
(* compute_coords, outer_path_from_turns, inner_path_from_outer,           *)
(* inner_turns_from_inner_path and the export assembly of index().         *)
(*                                                                         *)
(* Numbers.  The program computes with Python floats.  The model computes  *)
(* with exact integers that count multiples of a grid unit of 0.5e-12, so  *)
(* that the tolerance 1e-12 of inner_path_from_outer is the integer Eps    *)
(* and a difference can be zero, below, equal to or above the tolerance.   *)
(* Floating-point rounding is not modelled.                                *)
(*                                                                         *)
(* Exceptions.  A raised ValueError is the value of err; a function that   *)
(* raises returns nothing, which the result records show as path = <<>>.   *)
(*                                                                         *)
(* Not modelled: plot_spiral and format_points_txt (rendering and text     *)
(* formatting of the finished point list) and the /download route.         *)
(***************************************************************************)
EXTENDS Integers, Sequences, FiniteSets

VARIABLES
    pc,             \* position of the request in index(), or of the direct call
    Lx, By,         \* outer rectangle, read from the form
    width, gap,     \* trace width and gap, read from the form
    N,              \* number of turns, read from the form
    include_inner,  \* the form's include_inner flag
    turns,          \* result of compute_coords
    outer_path,     \* result of outer_path_from_turns
    inner_path,     \* result of inner_path_from_outer
    inner_turns,    \* result of inner_turns_from_inner_path (<<>> while None)
    all_points,     \* the export sequence handed to format_points_txt
    err             \* "none", or the exception that ended the call

vars == <<pc, Lx, By, width, gap, N, include_inner, turns, outer_path,
          inner_path, inner_turns, all_points, err>>

----------------------------------------------------------------------------
(* Bounds of the model *)

MaxDim == 12
MaxW == 2
MaxG == 2
MaxN == 5
MaxLen == 3
MaxCoord == 3

(* The tolerance 1e-12 of inner_path_from_outer, in grid units of 0.5e-12 *)
Eps == 2

----------------------------------------------------------------------------
(* Helpers *)

Abs(x) == IF x < 0 THEN -x ELSE x

Min(a, b) == IF a < b THEN a ELSE b

\* list(reversed(s))
Reverse(s) == [k \in 1..Len(s) |-> s[Len(s) + 1 - k]]

\* Python's s[lo:hi] for 0 <= lo <= hi: the slice is clipped to the list
Slice(s, lo, hi) ==
    LET a == Min(lo, Len(s))
        b == Min(hi, Len(s))
    IN  [j \in 1..(b - a) |-> s[a + j]]

----------------------------------------------------------------------------
(* compute_coords *)

\* mutant: P4 mirrored onto P1's row (the asymmetry "fixed")
turn_corners_symmetric(lx, by, w, g, t) ==
    LET d == w + g
        i == t - 1
    IN  IF t = 1
        THEN << <<0, 0>>, <<0, by>>, <<lx, by>>, <<lx, 0>> >>
        ELSE << <<i * d, (i - 1) * d>>, <<i * d, by - i * d>>,
                <<lx - i * d, by - i * d>>, <<lx - i * d, (i - 1) * d>> >>

\* mutant: P1 raised to row i (the asymmetry "fixed" the other way)
turn_corners_p1_raised(lx, by, w, g, t) ==
    LET d == w + g
        i == t - 1
    IN  IF t = 1
        THEN << <<0, 0>>, <<0, by>>, <<lx, by>>, <<lx, 0>> >>
        ELSE << <<i * d, i * d>>, <<i * d, by - i * d>>,
                <<lx - i * d, by - i * d>>, <<lx - i * d, i * d>> >>

\* mutant: the pitch forgets the gap
turn_corners_no_gap(lx, by, w, g, t) ==
    LET d == w
        i == t - 1
    IN  IF t = 1
        THEN << <<0, 0>>, <<0, by>>, <<lx, by>>, <<lx, 0>> >>
        ELSE << <<i * d, (i - 1) * d>>, <<i * d, by - i * d>>,
                <<lx - i * d, by - i * d>>, <<lx - i * d, i * d>> >>

\* the four corners of turn t
turn_corners(lx, by, w, g, t) ==
    LET d == w + g
    IN  IF t = 1
        THEN << <<0, 0>>, <<0, by>>, <<lx, by>>, <<lx, 0>> >>
        ELSE LET i == t - 1
                 x_in == i * d
                 y_bottom_in == (i - 1) * d
                 y_top_in == by - i * d
                 x_right_in == lx - i * d
             IN  << <<x_in, y_bottom_in>>, <<x_in, y_top_in>>,
                    <<x_right_in, y_top_in>>, <<x_right_in, i * d>> >>

compute_coords(lx, by, n, w, g) ==
    [t \in 1..n |-> turn_corners(lx, by, w, g, t)]

----------------------------------------------------------------------------
(* outer_path_from_turns *)

RECURSIVE outer_path_from_turns(_)
outer_path_from_turns(ts) ==
    IF ts = <<>>
    THEN <<>>
    ELSE outer_path_from_turns(SubSeq(ts, 1, Len(ts) - 1))
            \o <<ts[Len(ts)][1], ts[Len(ts)][2], ts[Len(ts)][3], ts[Len(ts)][4]>>

----------------------------------------------------------------------------
(* inner_path_from_outer *)

\* mutant: the zero-length check is missing
segment_error_no_zero_check(p, q) ==
    IF Abs(q[1] - p[1]) > Eps /\ Abs(q[2] - p[2]) > Eps
    THEN "NonAxisAligned"
    ELSE "none"

\* the validation of one segment p -> q
segment_error(p, q) ==
    LET dx == q[1] - p[1]
        dy == q[2] - p[2]
    IN  IF Abs(dx) > Eps /\ Abs(dy) > Eps THEN "NonAxisAligned"
        ELSE IF Abs(dx) < Eps /\ Abs(dy) < Eps THEN "ZeroLength"
        ELSE "none"

\* the right-hand offset of one validated segment p -> q
offset_segment(p, q, w) ==
    LET dx == q[1] - p[1]
        dy == q[2] - p[2]
        off == IF Abs(dx) < Eps
               THEN (IF dy > 0 THEN <<w, 0>> ELSE <<-w, 0>>)
               ELSE (IF dx > 0 THEN <<0, -w>> ELSE <<0, w>>)
    IN  [a |-> <<p[1] + off[1], p[2] + off[2]>>,
         b |-> <<q[1] + off[1], q[2] + off[2]>>,
         ori |-> IF Abs(dx) < Eps THEN "v" ELSE "h"]

\* mutant: every corner joined as a straight continuation
join_vertex_next_start(s1, s2) == s2.a

\* the inner vertex where offset segment s1 meets the next one, s2
join_vertex(s1, s2) ==
    IF s1.ori = s2.ori
    THEN s2.a
    ELSE IF s1.ori = "v"
         THEN <<s1.a[1], s2.a[2]>>
         ELSE <<s2.a[1], s1.a[2]>>

\* mutant: the last offset segment's end is not appended
inner_path_from_outer_no_end(path, w) ==
    LET n == Len(path)
        bad == {i \in 1..(n - 1) : segment_error(path[i], path[i + 1]) # "none"}
    IN  IF n < 2 THEN [err |-> "none", path |-> <<>>]
        ELSE IF bad # {}
        THEN LET i == CHOOSE j \in bad : \A k \in bad : j <= k
             IN  [err |-> segment_error(path[i], path[i + 1]), path |-> <<>>]
        ELSE LET segs == [i \in 1..(n - 1) |->
                             offset_segment(path[i], path[i + 1], w)]
             IN  [err |-> "none",
                  path |-> <<segs[1].a>>
                           \o [i \in 1..(n - 2) |-> join_vertex(segs[i], segs[i + 1])]]

inner_path_from_outer(path, w) ==
    LET n == Len(path)
        bad == {i \in 1..(n - 1) : segment_error(path[i], path[i + 1]) # "none"}
    IN  IF n < 2 THEN [err |-> "none", path |-> <<>>]
        ELSE IF bad # {}
        THEN \* the loop raises at the first segment that fails validation
             LET i == CHOOSE j \in bad : \A k \in bad : j <= k
             IN  [err |-> segment_error(path[i], path[i + 1]), path |-> <<>>]
        ELSE LET segs == [i \in 1..(n - 1) |->
                             offset_segment(path[i], path[i + 1], w)]
             IN  [err |-> "none",
                  path |-> <<segs[1].a>>
                           \o [i \in 1..(n - 2) |-> join_vertex(segs[i], segs[i + 1])]
                           \o <<segs[n - 1].b>>]

----------------------------------------------------------------------------
(* inner_turns_from_inner_path *)

\* mutant: blocks sliced one point short
inner_turns_from_inner_path_short(path, n) ==
    [t \in 1..n |-> Slice(path, 4 * (t - 1), 4 * (t - 1) + 3)]

inner_turns_from_inner_path(path, n) ==
    [t \in 1..n |-> Slice(path, 4 * (t - 1), 4 * (t - 1) + 4)]

----------------------------------------------------------------------------
(* the export assembly of index() *)

\* mutant: the inner path is appended without being reversed
export_points_not_reversed(outer, inner, inc) ==
    LET with_inner == IF inc /\ inner # <<>> THEN outer \o inner ELSE outer
    IN  IF outer # <<>> THEN Append(with_inner, outer[1]) ELSE with_inner

export_points(outer, inner, inc) ==
    LET with_inner == IF inc /\ inner # <<>> THEN outer \o Reverse(inner) ELSE outer
    IN  IF outer # <<>> THEN Append(with_inner, outer[1]) ELSE with_inner

----------------------------------------------------------------------------
(* The request handler index(), one POST at a time *)

\* Between requests nothing is kept: every local of index() is rebuilt by the
\* next POST.  (The form defaults Lx=10, By=6, width=gap=0.15, N=5 are only
\* displayed by a GET and never computed with; the idle state holds zeros.)
Idle ==
    /\ pc = "idle"
    /\ Lx = 0 /\ By = 0 /\ width = 0 /\ gap = 0 /\ N = 0
    /\ include_inner = FALSE
    /\ turns = <<>> /\ outer_path = <<>> /\ inner_path = <<>>
    /\ inner_turns = <<>> /\ all_points = <<>>
    /\ err = "none"

Init == Idle

\* request.method == "POST": read the form
Post ==
    /\ pc = "idle"
    /\ \E lx \in 1..MaxDim, by \in 1..MaxDim, w \in 0..MaxW, g \in 0..MaxG,
          n \in 0..MaxN, inc \in BOOLEAN :
          /\ Lx' = lx /\ By' = by /\ width' = w /\ gap' = g /\ N' = n
          /\ include_inner' = inc
    /\ pc' = "compute"
    /\ UNCHANGED <<turns, outer_path, inner_path, inner_turns, all_points, err>>

\* turns = compute_coords(Lx, By, N, width, gap)
ComputeCoords ==
    /\ pc = "compute"
    /\ turns' = compute_coords(Lx, By, N, width, gap)
    /\ pc' = "flatten"
    /\ UNCHANGED <<Lx, By, width, gap, N, include_inner, outer_path,
                   inner_path, inner_turns, all_points, err>>

\* outer_path = outer_path_from_turns(turns)
OuterPath ==
    /\ pc = "flatten"
    /\ outer_path' = outer_path_from_turns(turns)
    /\ pc' = IF include_inner THEN "offset" ELSE "export"
    /\ UNCHANGED <<Lx, By, width, gap, N, include_inner, turns,
                   inner_path, inner_turns, all_points, err>>

\* inner_path = inner_path_from_outer(outer_path, width); a ValueError leaves
\* index() and ends the request
InnerPath ==
    /\ pc = "offset"
    /\ LET r == inner_path_from_outer(outer_path, width)
       IN  /\ err' = r.err
           /\ inner_path' = r.path
           /\ pc' = IF r.err = "none" THEN "regroup" ELSE "failed"
    /\ UNCHANGED <<Lx, By, width, gap, N, include_inner, turns, outer_path,
                   inner_turns, all_points>>

\* inner_turns = inner_turns_from_inner_path(inner_path, N)
InnerTurns ==
    /\ pc = "regroup"
    /\ inner_turns' = inner_turns_from_inner_path(inner_path, N)
    /\ pc' = "export"
    /\ UNCHANGED <<Lx, By, width, gap, N, include_inner, turns, outer_path,
                   inner_path, all_points, err>>

\* all_points = list(outer_path), extended by the reversed inner path and
\* closed by outer_path[0]
Export ==
    /\ pc = "export"
    /\ all_points' = export_points(outer_path, inner_path, include_inner)
    /\ pc' = "done"
    /\ UNCHANGED <<Lx, By, width, gap, N, include_inner, turns, outer_path,
                   inner_path, inner_turns, err>>

\* the response is sent (the rendered page, or the error of a failed request)
Respond ==
    /\ pc \in {"done", "failed"}
    /\ pc' = "idle"
    /\ Lx' = 0 /\ By' = 0 /\ width' = 0 /\ gap' = 0 /\ N' = 0
    /\ include_inner' = FALSE
    /\ turns' = <<>> /\ outer_path' = <<>> /\ inner_path' = <<>>
    /\ inner_turns' = <<>> /\ all_points' = <<>>
    /\ err' = "none"

Next ==
    \/ Post
    \/ ComputeCoords
    \/ OuterPath
    \/ InnerPath
    \/ InnerTurns
    \/ Export
    \/ Respond

Spec == Init /\ [][Next]_vars

----------------------------------------------------------------------------
(* Direct calls of the two path functions on arbitrary paths *)

Points == (0..MaxCoord) \X (0..MaxCoord)

\* the point lists of length k
Paths(k) == [1..k -> Points]

\* the caller holds an arbitrary point list
PathInit ==
    /\ pc = "call"
    /\ \E k \in 0..MaxLen : outer_path \in Paths(k)
    /\ inner_path = outer_path
    /\ Lx = 0 /\ By = 0 /\ gap = 0 /\ width = 0 /\ N = 0
    /\ include_inner = FALSE
    /\ turns = <<>> /\ inner_turns = <<>> /\ all_points = <<>>
    /\ err = "none"

\* inner_path_from_outer(outer_path, w)
CallInnerPath(w) ==
    /\ pc = "call"
    /\ width' = w
    /\ LET r == inner_path_from_outer(outer_path, w)
       IN  /\ err' = r.err
           /\ inner_path' = r.path
    /\ pc' = "offset_returned"
    /\ UNCHANGED <<Lx, By, gap, N, include_inner, turns, outer_path,
                   inner_turns, all_points>>

\* inner_turns_from_inner_path(inner_path, n)
CallInnerTurns(n) ==
    /\ pc = "call"
    /\ N' = n
    /\ inner_turns' = inner_turns_from_inner_path(inner_path, n)
    /\ pc' = "regroup_returned"
    /\ UNCHANGED <<Lx, By, width, gap, include_inner, turns, outer_path,
                   inner_path, all_points, err>>

PathNext ==
    \/ \E w \in 1..MaxW : CallInnerPath(w)
    \/ \E n \in 0..MaxN : CallInnerTurns(n)

SpecPath == PathInit /\ [][PathNext]_vars

----------------------------------------------------------------------------
(* Positions of a request, and the vocabulary of the claims *)

AfterCompute == pc \in {"flatten", "offset", "regroup", "export", "done", "failed"}

AfterFlatten == pc \in {"offset", "regroup", "export", "done", "failed"}

InnerComputed == include_inner /\ pc \in {"regroup", "export", "done"}

Regrouped == include_inner /\ pc \in {"export", "done"}

\* the pitch of the request
Pitch == width + gap

\* section 4.1's failure condition for turn t of the request
TurnCollapsed(t) ==
    LET i == t - 1
    IN  \/ Lx - i * Pitch <= i * Pitch
        \/ By - i * Pitch <= (i - 1) * Pitch

Degenerate == \E t \in 2..N : TurnCollapsed(t)

\* Lx and By leave room for all N turns
Roomy == Lx > 2 * (N - 1) * Pitch /\ By > 2 * (N - 1) * Pitch

\* p and q differ in exactly one coordinate, by a non-zero amount
ProperStep(p, q) ==
    \/ (p[1] = q[1] /\ p[2] # q[2])
    \/ (p[1] # q[1] /\ p[2] = q[2])

WellFormed(path) ==
    \A k \in 1..(Len(path) - 1) : ProperStep(path[k], path[k + 1])

\* the longer side of the step p -> q
StepLength(p, q) ==
    IF Abs(q[1] - p[1]) > Abs(q[2] - p[2]) THEN Abs(q[1] - p[1]) ELSE Abs(q[2] - p[2])

\* both coordinates change by more than the tolerance
Diagonal(p, q) == Abs(q[1] - p[1]) > Eps /\ Abs(q[2] - p[2]) > Eps

\* both coordinates change by less than the tolerance
Tiny(p, q) == Abs(q[1] - p[1]) < Eps /\ Abs(q[2] - p[2]) < Eps

Malformed(path) ==
    {k \in 1..(Len(path) - 1) :
        Diagonal(path[k], path[k + 1]) \/ Tiny(path[k], path[k + 1])}

\* 1-based position in a path of corner c (1..4) of turn t
At(t, c) == 4 * (t - 1) + c

----------------------------------------------------------------------------
(* C1: compute_coords rejects a degenerate configuration: when some turn   *)
(* t in 2..N has x_right_in <= x_in or y_top_in <= y_bottom_in, the call   *)
(* ends in an invalid-configuration error and returns no turn list.        *)
C1_DegenerateRejected ==
    (AfterCompute /\ N >= 1 /\ Degenerate)
        => (err = "InvalidConfiguration" /\ turns = <<>>)

(* C2: compute_coords returns exactly N turns in index order; turn 1 is    *)
(* (0,0),(0,By),(Lx,By),(Lx,0); turn t > 1, with i = t-1 and d = w+g, is   *)
(* P1 = (i*d,(i-1)*d), P2 = (i*d,By-i*d), P3 = (Lx-i*d,By-i*d),            *)
(* P4 = (Lx-i*d,i*d).                                                      *)
C2_TurnCorners ==
    (AfterCompute /\ N >= 1) =>
        /\ Len(turns) = N
        /\ turns[1] = << <<0, 0>>, <<0, By>>, <<Lx, By>>, <<Lx, 0>> >>
        /\ \A t \in 2..N :
              LET i == t - 1
              IN  /\ turns[t][1] = <<i * Pitch, (i - 1) * Pitch>>
                  /\ turns[t][2] = <<i * Pitch, By - i * Pitch>>
                  /\ turns[t][3] = <<Lx - i * Pitch, By - i * Pitch>>
                  /\ turns[t][4] = <<Lx - i * Pitch, i * Pitch>>

C2_Witness ==
    AfterCompute /\ N = 3 /\ gap = 1 /\ width = 2 /\ Lx = 9 /\ By = 7

(* C3, as stated: for every spec with N >= 1, w > 0, g >= 0, Lx > 0,       *)
(* By > 0 in which no turn meets section 4.1's failure condition, every    *)
(* pair of consecutive points of the outer path differs in exactly one     *)
(* coordinate by a non-zero amount, and inner_path_from_outer raises       *)
(* neither of its two errors on that path.                                 *)
C3_Original ==
    (AfterFlatten /\ N >= 1 /\ width > 0 /\ gap >= 0 /\ Lx > 0 /\ By > 0
        /\ ~Degenerate)
        => /\ WellFormed(outer_path)
           /\ inner_path_from_outer(outer_path, width).err = "none"

(* C3, amended: when in addition no turn t in 2..N has y_top_in = i*d      *)
(* (By = 2*i*d, where P3 and P4 coincide), every pair of consecutive       *)
(* points of the outer path differs in exactly one coordinate by a         *)
(* non-zero amount; inner_path_from_outer never raises the                 *)
(* non-axis-aligned error on it, and raises the zero-length error exactly  *)
(* when some segment is shorter than the tolerance.                        *)
C3_OuterPathWellFormed ==
    (AfterFlatten /\ N >= 1 /\ width > 0 /\ gap >= 0 /\ Lx > 0 /\ By > 0
        /\ ~Degenerate
        /\ \A t \in 2..N : By - (t - 1) * Pitch # (t - 1) * Pitch)
        => LET r == inner_path_from_outer(outer_path, width)
               short == \E k \in 1..(Len(outer_path) - 1) :
                           StepLength(outer_path[k], outer_path[k + 1]) < Eps
           IN  /\ WellFormed(outer_path)
               /\ r.err # "NonAxisAligned"
               /\ (r.err = "ZeroLength") <=> short
               /\ (pc # "offset") => ((pc = "failed") <=> (include_inner /\ short))

\* a valid spec whose last turn has By < 2*i*d, so that P3 -> P4 runs upward
C3_Witness ==
    /\ InnerComputed /\ N = 2 /\ width = 2 /\ gap = 2 /\ ~Degenerate
    /\ Lx = 10 /\ By = 6
    /\ outer_path[At(2, 3)][2] < outer_path[At(2, 4)][2]

(* C5: for N >= 1, w > 0, Lx > 2(N-1)(w+g), By > 2(N-1)(w+g), every inner  *)
(* point with 0-based index k in 1..4N-2 is outer point k moved by exactly *)
(* w along x and w along y toward the inside of its turn (P1: (+w,+w),     *)
(* P2: (+w,-w), P3: (-w,-w), P4: (-w,+w)); the first and the last inner    *)
(* point are the offset endpoints of the first and the last segment.       *)
C5_InnerIsOuterMovedByWidth ==
    (InnerComputed /\ N >= 1 /\ width > 0 /\ Roomy) =>
        LET Moved(p, sx, sy) == <<p[1] + sx * width, p[2] + sy * width>>
            Inside(c) == IF c = 1 THEN <<1, 1>>
                         ELSE IF c = 2 THEN <<1, -1>>
                         ELSE IF c = 3 THEN <<-1, -1>>
                         ELSE <<-1, 1>>
        IN  /\ \A t \in 1..N, c \in 1..4 :
                  (At(t, c) # 1 /\ At(t, c) # 4 * N) =>
                      inner_path[At(t, c)]
                          = Moved(outer_path[At(t, c)], Inside(c)[1], Inside(c)[2])
            /\ inner_path[1] = Moved(outer_path[1], 1, 0)
            /\ inner_path[4 * N] = Moved(outer_path[4 * N], -1, 0)

C5_Witness ==
    InnerComputed /\ N = 3 /\ width = 1 /\ gap = 1 /\ Roomy

(* C7: for N >= 1 and a request that succeeds, without include_inner the   *)
(* export is the outer path followed by outer_path[0], 4N+1 points; with   *)
(* include_inner it is the outer path, the inner path reversed, then       *)
(* outer_path[0], 8N+1 points.  The first and last export points are       *)
(* equal, and the outer and inner paths are still what the earlier stages  *)
(* computed.                                                               *)
C7_ExportAssembly ==
    (pc = "done" /\ N >= 1) =>
        /\ ~include_inner =>
              /\ Len(all_points) = 4 * N + 1
              /\ all_points = outer_path \o <<outer_path[1]>>
        /\ include_inner =>
              /\ Len(all_points) = 8 * N + 1
              /\ \A k \in 1..(4 * N) :
                     /\ all_points[k] = outer_path[k]
                     /\ all_points[4 * N + k] = inner_path[4 * N + 1 - k]
              /\ all_points[8 * N + 1] = outer_path[1]
        /\ all_points[1] = all_points[Len(all_points)]
        /\ outer_path = outer_path_from_turns(turns)
        /\ include_inner => inner_path = inner_path_from_outer(outer_path, width).path

C7_Witness ==
    pc = "done" /\ include_inner /\ N = 2 /\ Len(all_points) = 17

(* C9: the outer path has exactly 4N points, point 4(t-1)+j being corner   *)
(* j+1 of turn t; the inner path, when computed, has the same 4N points    *)
(* and regrouping yields exactly N blocks of exactly 4 points, block t     *)
(* holding inner points 4(t-1)..4(t-1)+3 in order.                         *)
C9_PathSizesAndOrder ==
    /\ (AfterFlatten /\ N >= 1) =>
          /\ Len(outer_path) = 4 * N
          /\ \A t \in 1..N, c \in 1..4 : outer_path[At(t, c)] = turns[t][c]
    /\ (InnerComputed /\ N >= 1) => Len(inner_path) = 4 * N
    /\ (Regrouped /\ N >= 1) =>
          /\ Len(inner_turns) = N
          /\ \A t \in 1..N :
                /\ Len(inner_turns[t]) = 4
                /\ \A c \in 1..4 : inner_turns[t][c] = inner_path[At(t, c)]

C9_Witness ==
    Regrouped /\ N = 3 /\ Len(inner_turns) = 3

(* C10: for N >= 2, w > 0, g >= 0 and room for all turns, on each of the   *)
(* four sides the inner-edge line of turn t and the outer-edge line of     *)
(* turn t+1 are exactly g apart, the inner edge lying on the outer side.   *)
C10_GapBetweenTurns ==
    (InnerComputed /\ N >= 2 /\ width > 0 /\ gap >= 0 /\ Roomy) =>
        \A t \in 1..(N - 1) :
            \* left side: x of the inner P1-P2 line, x of the next outer P1-P2 line
            /\ inner_path[At(t, 1)][1] = inner_path[At(t, 2)][1]
            /\ outer_path[At(t + 1, 1)][1] = outer_path[At(t + 1, 2)][1]
            /\ outer_path[At(t + 1, 2)][1] - inner_path[At(t, 2)][1] = gap
            \* top side: y of the P2-P3 lines
            /\ inner_path[At(t, 2)][2] = inner_path[At(t, 3)][2]
            /\ outer_path[At(t + 1, 2)][2] = outer_path[At(t + 1, 3)][2]
            /\ inner_path[At(t, 2)][2] - outer_path[At(t + 1, 2)][2] = gap
            \* right side: x of the P3-P4 lines
            /\ inner_path[At(t, 3)][1] = inner_path[At(t, 4)][1]
            /\ outer_path[At(t + 1, 3)][1] = outer_path[At(t + 1, 4)][1]
            /\ inner_path[At(t, 3)][1] - outer_path[At(t + 1, 3)][1] = gap
            \* bottom run: y of the line from P4 to the next turn's P1
            /\ inner_path[At(t, 4)][2] = inner_path[At(t + 1, 1)][2]
            /\ (t + 2 <= N) =>
                   outer_path[At(t + 1, 4)][2] = outer_path[At(t + 2, 1)][2]
            /\ outer_path[At(t + 1, 4)][2] - inner_path[At(t, 4)][2] = gap

C10_Witness ==
    InnerComputed /\ N = 3 /\ width = 1 /\ gap = 1 /\ Roomy /\ Lx = 10 /\ By = 10

----------------------------------------------------------------------------
(* Claims about the path functions called directly (SpecPath) *)

C6_Original ==
    (pc = "offset_returned" /\ Len(outer_path) >= 2) =>
        LET steps == 1..(Len(outer_path) - 1)
        IN  /\ (\E k \in steps : Diagonal(outer_path[k], outer_path[k + 1]))
                  => (err = "NonAxisAligned" /\ inner_path = <<>>)
            /\ (\E k \in steps : Tiny(outer_path[k], outer_path[k + 1]))
                  => (err = "ZeroLength" /\ inner_path = <<>>)
            /\ (err = "none" /\ inner_path # <<>>) => Malformed(outer_path) = {}

(* C6, amended: the call ends in the error of the FIRST malformed pair in  *)
(* path order: the non-axis-aligned error when that pair changes both      *)
(* coordinates by more than the tolerance, the zero-length error when it   *)
(* changes both by less than the tolerance; nothing is returned then, and  *)
(* a path is returned exactly when no pair is malformed.                   *)
C6_FirstMalformedSegmentDecides ==
    (pc = "offset_returned" /\ Len(outer_path) >= 2) =>
        LET bad == Malformed(outer_path)
        IN  IF bad = {}
            THEN err = "none" /\ Len(inner_path) = Len(outer_path)
            ELSE LET k == CHOOSE j \in bad : \A m \in bad : j <= m
                 IN  /\ inner_path = <<>>
                     /\ Diagonal(outer_path[k], outer_path[k + 1])
                            => err = "NonAxisAligned"
                     /\ Tiny(outer_path[k], outer_path[k + 1])
                            => err = "ZeroLength"

C6_Witness ==
    /\ pc = "offset_returned" /\ err = "NonAxisAligned"
    /\ Len(outer_path) = 3
    /\ Diagonal(outer_path[1], outer_path[2])
    /\ Tiny(outer_path[2], outer_path[3])

(* C8: inner_turns_from_inner_path called with len(inner_path) # 4N ends   *)
(* in a LengthMismatch error and returns no turn list.                     *)
C8_LengthMismatchSignalled ==
    (pc = "regroup_returned" /\ Len(inner_path) # 4 * N)
        => (err = "LengthMismatch" /\ inner_turns = <<>>)

====
